---- MODULE Spec2Model ----
(***************************************************************************)
(* Model of ecsact_common's template synchroniser (src/main.go).           *)
(*                                                                         *)
(* A path is a sequence of tokens: a token is a file or directory name, or *)
(* one of the two separators "/" and "\\".  Names hold no separator, so    *)
(* strings.ReplaceAll and strings.TrimPrefix act on tokens exactly as they *)
(* act on the characters of the path.  The local filesystem fs maps the    *)
(* sequence of names a path resolves to onto Dir or onto the content of a  *)
(* regular file (a number; 0 is the empty file).  The hosting provider     *)
(* holds, per repository, the tree of the default branch, the open pull    *)
(* requests in response order and the commit of the sync branch.           *)
(***************************************************************************)
EXTENDS Integers, Sequences, FiniteSets, TLC

VARIABLES
  c,            \* the configuration read from config.yml
  sep,          \* the host's path separator ("/" or "\\")
  ghUser,       \* the login gh is authenticated as
  fs,           \* the local filesystem
  defaultTree,  \* hosting: per repository, the default branch's files
  prs,          \* hosting: per repository, the open PRs in response order
  remoteBranch, \* hosting: per repository, the sync branch's commit
  pc,           \* position of main
  run,          \* number of the current run
  i,            \* index of the current repository in c.Repos
  j,            \* index in the materialization loops
  files,        \* result of getAllFiles
  files_diff,   \* result of getFilesDiff
  pr_num,       \* result of findPrNumber
  wt,           \* the clone's git state: current branch and last commit
  log,          \* the steps of the current run, in order
  outcome,      \* per repository, the state its processing ended in
  prevOutcome,  \* outcome of the previous run
  prs0,         \* the open PRs when the current run started
  inFile,       \* input of the path mapping: a template file path
  inPrefix,     \* input of the path mapping: strip_prefix
  outRel        \* output of the path mapping

vars == <<c, sep, ghUser, fs, defaultTree, prs, remoteBranch, pc, run, i, j,
          files, files_diff, pr_num, wt, log, outcome, prevOutcome,
          prs0, inFile, inPrefix, outRel>>

Slash == "/"

Backslash == "\\"

Separators == {Slash, Backslash}

(***************************************************************************)
(* strings and paths                                                       *)
(***************************************************************************)

\* strings.ReplaceAll(s, old, new) for a one-character old and new
ReplaceAll(s, old, new) ==
  [k \in 1..Len(s) |-> IF s[k] = old THEN new ELSE s[k]]

HasPrefix(s, p) ==
  Len(s) >= Len(p) /\ SubSeq(s, 1, Len(p)) = p

\* strings.TrimPrefix
TrimPrefix(s, p) ==
  IF HasPrefix(s, p) THEN SubSeq(s, Len(p) + 1, Len(s)) ELSE s

\* file_rel of getFilesDiff
\* (variant: the separators are left as they are)
FileRelNoNormalize(file, strip_prefix) ==
  TrimPrefix(file, strip_prefix)

FileRel(file, strip_prefix) ==
  TrimPrefix(ReplaceAll(file, Backslash, Slash), strip_prefix)

IsName(t) == t \notin Separators /\ t /= "."

\* The names a path resolves to on the host (relative to the working
\* directory; "." and repeated separators drop out, as the OS resolves them).
Components(p) == SelectSeq(p, IsName)

RECURSIVE PathOf(_, _)
\* The names joined by the separator s
PathOf(names, s) ==
  IF Len(names) = 0 THEN <<>>
  ELSE IF Len(names) = 1 THEN <<names[1]>>
  ELSE <<names[1], s>> \o PathOf(Tail(names), s)

\* filepath.Join(dir, name): joined with the host separator, then cleaned
JoinPath(dir, names, s) == PathOf(Components(dir) \o names, s)

\* path.Dir: all but the last element, which only "/" separates
LastSlash(p) ==
  LET S == {k \in 1..Len(p) : p[k] = Slash}
  IN  IF S = {} THEN 0 ELSE CHOOSE k \in S : \A m \in S : m <= k

PathDir(p) ==
  IF LastSlash(p) = 0 THEN <<".">> ELSE SubSeq(p, 1, LastSlash(p) - 1)

(***************************************************************************)
(* the local filesystem                                                    *)
(***************************************************************************)

\* what a directory's entry holds (os.FileInfo.IsDir); a file's is its content
Dir == -1

Exists(f, n) == n = <<>> \/ n \in DOMAIN f

IsDir(f, n) == n = <<>> \/ (n \in DOMAIN f /\ f[n] = Dir)

IsFile(f, n) == n \in DOMAIN f /\ f[n] /= Dir

Parent(n) == SubSeq(n, 1, Len(n) - 1)

Prefixes(n) == {SubSeq(n, 1, k) : k \in 1..Len(n)}

\* os.Stat: "ok", "notexist" (ENOENT) or "error" (a parent that is a file)
Stat(f, n) ==
  IF Exists(f, n) THEN "ok"
  ELSE IF \E q \in Prefixes(Parent(n)) : IsFile(f, q) THEN "error"
  ELSE "notexist"

Put(f, n, v) == [q \in DOMAIN f \cup {n} |-> IF q = n THEN v ELSE f[q]]

\* os.MkdirAll: creates the missing directories, up to a parent that is a file
MkdirAll(f, n) ==
  LET blocked == {q \in Prefixes(n) : IsFile(f, q)}
      made    == {q \in Prefixes(n) : ~Exists(f, q) /\
                    \A b \in blocked : Len(b) > Len(q)}
  IN  [q \in DOMAIN f \cup made |-> IF q \in DOMAIN f THEN f[q] ELSE Dir]

\* os.Create succeeds in an existing directory, on a path that is no directory
CanCreate(f, n) == Len(n) > 0 /\ IsDir(f, Parent(n)) /\ ~IsDir(f, n)

\* The entries of f below the directory d, as paths relative to d
Below(f, d) ==
  {SubSeq(n, Len(d) + 1, Len(n)) : n \in {m \in DOMAIN f : Len(m) > Len(d) /\ SubSeq(m, 1, Len(d)) = d}}

\* The regular files below d with their content: what git tracks of d
FilesBelow(f, d) ==
  [p \in {q \in Below(f, d) : IsFile(f, d \o q)} |-> f[d \o p]]

\* f with the files of tree written below d, and the directories they need
WriteTree(f, d, tree) ==
  LET newFiles == {d \o p : p \in DOMAIN tree}
      newDirs  == Prefixes(d) \cup UNION {Prefixes(Parent(n)) : n \in newFiles}
  IN  [q \in DOMAIN f \cup newFiles \cup newDirs |->
         IF q \in newFiles THEN tree[SubSeq(q, Len(d) + 1, Len(q))]
         ELSE IF q \in newDirs THEN Dir
         ELSE f[q]]

(***************************************************************************)
(* File Enumerator                                                         *)
(***************************************************************************)

\* Names in the byte order filepath.Walk lists a directory in
NameOrder == <<"A", "B", "C", "X", "a", "b.txt", "clones", "d", "r1", "r2", "templates">>

Rank(name) == CHOOSE k \in 1..Len(NameOrder) : NameOrder[k] = name

RECURSIVE LexLess(_, _)
LexLess(a, b) ==
  IF Len(a) = 0 THEN Len(b) > 0
  ELSE IF Len(b) = 0 THEN FALSE
  ELSE IF a[1] = b[1] THEN LexLess(Tail(a), Tail(b))
  ELSE Rank(a[1]) < Rank(b[1])

RECURSIVE SortPaths(_)
SortPaths(S) ==
  IF S = {} THEN <<>>
  ELSE LET m == CHOOSE x \in S : \A y \in S : x = y \/ LexLess(x, y)
       IN  <<m>> \o SortPaths(S \ {m})

\* filepath.Walk fails when the root cannot be read
getAllFilesErr(f, dir) == ~Exists(f, Components(dir))

\* getAllFiles: every regular file under dir, each path joined by the host
\* separator, in the order of the walk
getAllFiles(f, dir, s) ==
  IF IsFile(f, Components(dir)) THEN <<dir>>
  ELSE LET d     == Components(dir)
           found == SortPaths({p \in Below(f, d) : IsFile(f, d \o p)})
       IN  [k \in 1..Len(found) |-> JoinPath(dir, found[k], s)]

(***************************************************************************)
(* Diff Engine                                                             *)
(***************************************************************************)

NoDiff == [NewFiles |-> <<>>, ChangedFiles |-> <<>>, err |-> FALSE]

\* One iteration of the loop of getFilesDiff.  dirCmpErr: whether comparing
\* a file with a directory ends in a read error or in "not equal".
\* (variant: a differing file is listed as new and as changed)
DiffStepBoth(f, dir, file, strip_prefix, acc, dirCmpErr) ==
  LET file_rel  == FileRel(file, strip_prefix)
      repo_file == dir \o <<Slash>> \o file_rel
      st        == Stat(f, Components(repo_file))
  IN  IF st = "error" THEN [acc EXCEPT !.err = TRUE]
      ELSE IF st = "notexist" THEN [acc EXCEPT !.NewFiles = Append(@, file_rel)]
      ELSE IF IsFile(f, Components(repo_file))
              /\ f[Components(repo_file)] = f[Components(file)] THEN acc
      ELSE [acc EXCEPT !.NewFiles = Append(@, file_rel),
                       !.ChangedFiles = Append(@, file_rel)]

\* (variant: the two lists are swapped)
DiffStepSwapped(f, dir, file, strip_prefix, acc, dirCmpErr) ==
  LET file_rel  == FileRel(file, strip_prefix)
      repo_file == dir \o <<Slash>> \o file_rel
      st        == Stat(f, Components(repo_file))
  IN  IF st = "notexist" THEN [acc EXCEPT !.ChangedFiles = Append(@, file_rel)]
      ELSE IF st = "ok" /\ IsFile(f, Components(repo_file)) /\ IsFile(f, Components(file))
              /\ f[Components(repo_file)] /= f[Components(file)]
           THEN [acc EXCEPT !.NewFiles = Append(@, file_rel)]
      ELSE acc

DiffStep(f, dir, file, strip_prefix, acc, dirCmpErr) ==
  LET file_rel  == FileRel(file, strip_prefix)
      repo_file == dir \o <<Slash>> \o file_rel
      src       == Components(file)
      dst       == Components(repo_file)
      st        == Stat(f, dst)
  IN  IF Stat(f, src) /= "ok" THEN [acc EXCEPT !.err = TRUE]
      ELSE IF IsDir(f, src) THEN acc
      ELSE IF st = "error" THEN [acc EXCEPT !.err = TRUE]
      ELSE IF st = "notexist" THEN [acc EXCEPT !.NewFiles = Append(@, file_rel)]
      ELSE IF IsDir(f, dst)
           THEN IF dirCmpErr THEN [acc EXCEPT !.err = TRUE]
                ELSE [acc EXCEPT !.ChangedFiles = Append(@, file_rel)]
      ELSE IF f[dst] /= f[src] THEN [acc EXCEPT !.ChangedFiles = Append(@, file_rel)]
      ELSE acc

RECURSIVE DiffLoop(_, _, _, _, _, _, _)
DiffLoop(f, dir, fl, strip_prefix, k, acc, dirCmpErr) ==
  IF k > Len(fl) \/ acc.err THEN acc
  ELSE DiffLoop(f, dir, fl, strip_prefix, k + 1,
                DiffStep(f, dir, fl[k], strip_prefix, acc, dirCmpErr), dirCmpErr)

getFilesDiff(f, dir, fl, strip_prefix, dirCmpErr) ==
  DiffLoop(f, dir, fl, strip_prefix, 1, NoDiff, dirCmpErr)

(***************************************************************************)
(* PR Locator                                                              *)
(***************************************************************************)

\* The items of gh pr list: title, number, author login (and, at the
\* provider, the head branch).  0 stands for the nil *int.
RECURSIVE findPrNumber(_, _, _)
\* (variant: the last matching item instead of the first)
findPrNumberLast(items, title, author) ==
  IF Len(items) = 0 THEN 0
  ELSE IF findPrNumber(Tail(items), title, author) /= 0
       THEN findPrNumber(Tail(items), title, author)
  ELSE IF items[1].author = author /\ items[1].title = title THEN items[1].number
  ELSE 0

findPrNumber(items, title, author) ==
  IF Len(items) = 0 THEN 0
  ELSE IF items[1].author /= author THEN findPrNumber(Tail(items), title, author)
  ELSE IF items[1].title /= title THEN findPrNumber(Tail(items), title, author)
  ELSE items[1].number

(***************************************************************************)
(* git and the hosting provider                                            *)
(***************************************************************************)

EmptyTree == [p \in {} |-> 0]

\* A commit: the run that made it (0: none), its files, its message and
\* author, and whether it is an ancestor of the default branch's head
NoCommit == [id |-> 0, tree |-> EmptyTree, title |-> "", author |-> "", merged |-> FALSE]

NoWt == [branch |-> "", branches |-> {}, head |-> EmptyTree, commit |-> NoCommit]

branch_name == "chore/sync-with-ecsact-common"

repo_clone_dir(repo_name) == <<".", Slash, "clones", Slash, repo_name>>

\* worktree.AddGlob(".") and worktree.Commit(prTitle, author): every file of
\* the working tree, on top of the head that was checked out
CommitOf(f, repo_name, prTitle, author, n) ==
  [id |-> n, tree |-> FilesBelow(f, Components(repo_clone_dir(repo_name))),
   title |-> prTitle, author |-> author, merged |-> FALSE]

\* The paths a commit changes against its parent
Changes(parent, tree) ==
  {p \in DOMAIN parent \cup DOMAIN tree :
     ~(p \in DOMAIN parent /\ p \in DOMAIN tree /\ parent[p] = tree[p])}

\* git push without --force is rejected unless it is a fast-forward
PushAccepted(remote, force) ==
  force \/ remote.id = 0 \/ remote.merged

MaxNumber(items) ==
  IF Len(items) = 0 THEN 0
  ELSE CHOOSE n \in {items[k].number : k \in 1..Len(items)} :
         \A k \in 1..Len(items) : items[k].number <= n

\* gh pr create: refused when the head branch already has an open PR
CreateAccepted(items, head) ==
  \A k \in 1..Len(items) : items[k].head /= head

NewPr(items, title, login, head) ==
  [title |-> title, number |-> MaxNumber(items) + 1, author |-> login, head |-> head]

(***************************************************************************)
(* main                                                                    *)
(***************************************************************************)

\* checkErr: a non-nil error ends the process
\* (variant: the error is dropped)
checkErrIgnored(err, next) == next

checkErr(err, next) == IF err THEN "fatal" ELSE next

\* len(files_diff.ChangedFiles) == 0 && len(files_diff.NewFiles) == 0
\* (variants: one empty list is enough; no early exit)
NoChangesEither(d) == Len(d.ChangedFiles) = 0 \/ Len(d.NewFiles) = 0

NoChangesNever(d) == FALSE

NoChanges(d) == Len(d.ChangedFiles) = 0 /\ Len(d.NewFiles) = 0

\* if pr_num == nil { createPr } else { updatePr }
\* (variants: the branches swapped; always createPr)
CreateOrUpdateSwapped(n) == IF n = 0 THEN "updatePr" ELSE "createPr"

CreateOrUpdateAlwaysCreate(n) == "createPr"

\* (variants: the commit left out; the PR opened before anything is pushed)
CreateOrUpdateSkipCommit(n) == IF n = 0 THEN "createPush" ELSE "updatePush"

CreateOrUpdatePrFirst(n) == IF n = 0 THEN "prCreate" ELSE "updatePr"

CreateOrUpdate(n) == IF n = 0 THEN "createPr" ELSE "updatePr"

\* The repository being processed ("" outside the loop)
\* (variant: the list is walked back to front)
repo_nameBackToFront ==
  IF i \in 1..Len(c.Repos) THEN c.Repos[Len(c.Repos) + 1 - i] ELSE ""

repo_name == IF i \in 1..Len(c.Repos) THEN c.Repos[i] ELSE ""

\* An entry of the log: the step, the file it copied, the PR number it found
Ev(step, path) == [repo |-> repo_name, step |-> step, path |-> path, num |-> 0]

EvFound(n) == [repo |-> repo_name, step |-> "findPr", path |-> <<>>, num |-> n]

hosting == <<defaultTree, prs, remoteBranch>>

pathVars == <<inFile, inPrefix, outRel>>

env == <<c, sep, ghUser, run, prevOutcome, prs0, pathVars>>

\* A failed step: the error is printed and checkErr decides what follows
Fail(next) ==
  /\ pc' = checkErr(TRUE, next)
  /\ log' = Append(log, Ev("error", <<>>))
  /\ UNCHANGED <<env, hosting, fs, i, j, files, files_diff, pr_num, wt, outcome>>

ReadConfig ==
  /\ pc = "readConfig"
  /\ \/ /\ pc' = checkErr(FALSE, "getAllFiles")
        /\ log' = Append(log, Ev("readConfig", <<>>))
        /\ UNCHANGED <<env, hosting, fs, i, j, files, files_diff, pr_num, wt, outcome>>
     \/ Fail("getAllFiles")

GetAllFiles ==
  /\ pc = "getAllFiles"
  /\ \/ /\ ~getAllFilesErr(fs, c.FilesDir)
        /\ files' = getAllFiles(fs, c.FilesDir, sep)
        /\ i' = 1
        /\ pc' = checkErr(FALSE, "loop")
        /\ log' = Append(log, Ev("getAllFiles", <<>>))
        /\ UNCHANGED <<env, hosting, fs, j, files_diff, pr_num, wt, outcome>>
     \/ /\ pc' = checkErr(TRUE, "loop")
        /\ i' = IF pc' = "fatal" THEN i ELSE 1
        /\ log' = Append(log, Ev("error", <<>>))
        /\ UNCHANGED <<env, hosting, fs, j, files, files_diff, pr_num, wt, outcome>>

\* for _, repo_name := range c.Repos: the list is exhausted
LoopEnd ==
  /\ pc = "loop"
  /\ i > Len(c.Repos)
  /\ pc' = "done"
  /\ UNCHANGED <<env, hosting, fs, i, j, files, files_diff, pr_num, wt, log, outcome>>

\* git.PlainClone into ./clones/<repo_name>
Clone ==
  /\ pc = "loop"
  /\ i <= Len(c.Repos)
  /\ \/ /\ ~Exists(fs, Components(repo_clone_dir(repo_name)))
        /\ fs' = WriteTree(fs, Components(repo_clone_dir(repo_name)), defaultTree[repo_name])
        /\ wt' = [branch |-> "main", branches |-> {"main"},
                  head |-> defaultTree[repo_name], commit |-> NoCommit]
        /\ pc' = checkErr(FALSE, "diff")
        /\ log' = Append(log, Ev("clone", <<>>))
        /\ UNCHANGED <<env, hosting, i, j, files, files_diff, pr_num, outcome>>
     \/ Fail("diff")

\* getFilesDiff(repo_clone_dir, files, c.FilesDir+"/")
\* (variant: the comparison opens the target file for writing)
DiffWrites ==
  /\ pc = "diff"
  /\ \/ \E dirCmpErr \in BOOLEAN :
          LET d == getFilesDiff(fs, repo_clone_dir(repo_name), files,
                                c.FilesDir \o <<Slash>>, dirCmpErr)
          IN  /\ ~d.err
              /\ files_diff' = d
              /\ fs' = IF Len(d.ChangedFiles) = 0 THEN fs
                       ELSE Put(fs, Components(repo_clone_dir(repo_name) \o <<Slash>>
                                                 \o d.ChangedFiles[1]), 0)
              /\ pc' = checkErr(FALSE, "check")
              /\ log' = Append(log, Ev("diff", <<>>))
              /\ UNCHANGED <<env, hosting, i, j, files, pr_num, wt, outcome>>
     \/ Fail("check")

Diff ==
  /\ pc = "diff"
  /\ \/ \E dirCmpErr \in BOOLEAN :
          LET d == getFilesDiff(fs, repo_clone_dir(repo_name), files,
                                c.FilesDir \o <<Slash>>, dirCmpErr)
          IN  /\ ~d.err
              /\ files_diff' = d
              /\ pc' = checkErr(FALSE, "check")
              /\ log' = Append(log, Ev("diff", <<>>))
              /\ UNCHANGED <<env, hosting, fs, i, j, files, pr_num, wt, outcome>>
     \/ Fail("check")

\* No changes for this repository: continue with the next one
\* (variant: break instead of continue)
SkipBreaks ==
  /\ pc = "check"
  /\ NoChanges(files_diff)
  /\ outcome' = [outcome EXCEPT ![repo_name] = "skipped"]
  /\ i' = i
  /\ pc' = "done"
  /\ log' = Append(log, Ev("skip", <<>>))
  /\ UNCHANGED <<env, hosting, fs, j, files, files_diff, pr_num, wt>>

Skip ==
  /\ pc = "check"
  /\ NoChanges(files_diff)
  /\ outcome' = [outcome EXCEPT ![repo_name] = "skipped"]
  /\ i' = i + 1
  /\ pc' = "loop"
  /\ log' = Append(log, Ev("skip", <<>>))
  /\ UNCHANGED <<env, hosting, fs, j, files, files_diff, pr_num, wt>>

NoSkip ==
  /\ pc = "check"
  /\ ~NoChanges(files_diff)
  /\ outcome' = [outcome EXCEPT ![repo_name] = "pending"]
  /\ pc' = "checkout"
  /\ UNCHANGED <<env, hosting, fs, i, j, files, files_diff, pr_num, wt, log>>

\* repo.Worktree, repo.Head, worktree.Checkout(Create, Force) of branch_name
\* at the head's hash; go-git refuses to create a branch that exists
Checkout ==
  /\ pc = "checkout"
  /\ \/ /\ branch_name \notin wt.branches
        /\ wt' = [wt EXCEPT !.branch = branch_name, !.branches = @ \cup {branch_name}]
        /\ j' = 1
        /\ pc' = checkErr(FALSE, "copyNew")
        /\ log' = Append(log, Ev("checkout", <<>>))
        /\ UNCHANGED <<env, hosting, fs, i, files, files_diff, pr_num, outcome>>
     \/ /\ pc' = checkErr(TRUE, "copyNew")
        /\ j' = 1
        /\ log' = Append(log, Ev("error", <<>>))
        /\ UNCHANGED <<env, hosting, fs, i, files, files_diff, pr_num, wt, outcome>>

\* The body of the two materialization loops for one file.  Returns the
\* filesystem it leaves and whether it failed; stage is where an I/O error
\* strikes ("none", "open", "create" or "copy").  mkdir: the NewFiles loop.
\* (variant: the copy leaves the destination empty)
CopyFileTruncates(f, filesDir, cloneDir, rel, mkdir, stage) ==
  LET src == Components(filesDir \o <<Slash>> \o rel)
      dst == Components(cloneDir \o <<Slash>> \o rel)
      f1  == IF mkdir THEN MkdirAll(f, Components(PathDir(cloneDir \o <<Slash>> \o rel))) ELSE f
  IN  IF stage = "open" \/ ~Exists(f, src) THEN [fs |-> f, err |-> TRUE]
      ELSE IF stage = "create" \/ ~CanCreate(f1, dst) THEN [fs |-> f1, err |-> TRUE]
      ELSE IF stage = "copy" \/ ~IsFile(f, src) THEN [fs |-> Put(f1, dst, 0), err |-> TRUE]
      ELSE [fs |-> Put(f1, dst, 0), err |-> FALSE]

\* (variant: a failed copy is not reported)
CopyFileSwallowsError(f, filesDir, cloneDir, rel, mkdir, stage) ==
  LET src == Components(filesDir \o <<Slash>> \o rel)
      dst == Components(cloneDir \o <<Slash>> \o rel)
      f1  == IF mkdir THEN MkdirAll(f, Components(PathDir(cloneDir \o <<Slash>> \o rel))) ELSE f
  IN  IF stage = "open" \/ ~Exists(f, src) THEN [fs |-> f, err |-> FALSE]
      ELSE IF stage = "create" \/ ~CanCreate(f1, dst) THEN [fs |-> f1, err |-> FALSE]
      ELSE IF stage = "copy" \/ ~IsFile(f, src) THEN [fs |-> Put(f1, dst, 0), err |-> FALSE]
      ELSE [fs |-> Put(f1, dst, f[src]), err |-> FALSE]

\* (variant: the destination's directory is emptied before the file is created)
CopyFileEmptiesDir(f, filesDir, cloneDir, rel, mkdir, stage) ==
  LET src == Components(filesDir \o <<Slash>> \o rel)
      dst == Components(cloneDir \o <<Slash>> \o rel)
      f1  == IF mkdir THEN MkdirAll(f, Components(PathDir(cloneDir \o <<Slash>> \o rel))) ELSE f
      f2  == [q \in {x \in DOMAIN f1 : ~(IsFile(f1, x) /\ Parent(x) = Parent(dst))} |-> f1[q]]
  IN  IF stage = "open" \/ ~Exists(f, src) THEN [fs |-> f, err |-> TRUE]
      ELSE IF stage = "create" \/ ~CanCreate(f1, dst) THEN [fs |-> f1, err |-> TRUE]
      ELSE IF stage = "copy" \/ ~IsFile(f, src) THEN [fs |-> Put(f2, dst, 0), err |-> TRUE]
      ELSE [fs |-> Put(f2, dst, f[src]), err |-> FALSE]

CopyFile(f, filesDir, cloneDir, rel, mkdir, stage) ==
  LET src == Components(filesDir \o <<Slash>> \o rel)
      dst == Components(cloneDir \o <<Slash>> \o rel)
      f1  == IF mkdir THEN MkdirAll(f, Components(PathDir(cloneDir \o <<Slash>> \o rel))) ELSE f
  IN  IF stage = "open" \/ ~Exists(f, src) THEN [fs |-> f, err |-> TRUE]
      ELSE IF stage = "create" \/ ~CanCreate(f1, dst) THEN [fs |-> f1, err |-> TRUE]
      ELSE IF stage = "copy" \/ ~IsFile(f, src) THEN [fs |-> Put(f1, dst, 0), err |-> TRUE]
      ELSE [fs |-> Put(f1, dst, f[src]), err |-> FALSE]

Stages == {"none", "open", "create", "copy"}

\* for _, new_file := range files_diff.NewFiles
CopyNew ==
  /\ pc = "copyNew"
  /\ j <= Len(files_diff.NewFiles)
  /\ \E stage \in Stages :
       LET r == CopyFile(fs, c.FilesDir, repo_clone_dir(repo_name),
                         files_diff.NewFiles[j], TRUE, stage)
       IN  /\ fs' = r.fs
           /\ pc' = checkErr(r.err, "copyNew")
           /\ j' = j + 1
           /\ log' = Append(log, Ev(IF r.err THEN "error" ELSE "copy", files_diff.NewFiles[j]))
  /\ UNCHANGED <<env, hosting, i, files, files_diff, pr_num, wt, outcome>>

CopyNewEnd ==
  /\ pc = "copyNew"
  /\ j > Len(files_diff.NewFiles)
  /\ j' = 1
  /\ pc' = "copyChanged"
  /\ UNCHANGED <<env, hosting, fs, i, files, files_diff, pr_num, wt, log, outcome>>

\* for _, changed_file := range files_diff.ChangedFiles
CopyChanged ==
  /\ pc = "copyChanged"
  /\ j <= Len(files_diff.ChangedFiles)
  /\ \E stage \in Stages :
       LET r == CopyFile(fs, c.FilesDir, repo_clone_dir(repo_name),
                         files_diff.ChangedFiles[j], FALSE, stage)
       IN  /\ fs' = r.fs
           /\ pc' = checkErr(r.err, "copyChanged")
           /\ j' = j + 1
           /\ log' = Append(log, Ev(IF r.err THEN "error" ELSE "copy", files_diff.ChangedFiles[j]))
  /\ UNCHANGED <<env, hosting, i, files, files_diff, pr_num, wt, outcome>>

CopyChangedEnd ==
  /\ pc = "copyChanged"
  /\ j > Len(files_diff.ChangedFiles)
  /\ pc' = "findPr"
  /\ UNCHANGED <<env, hosting, fs, i, j, files, files_diff, pr_num, wt, log, outcome>>

\* findPrNumber(repo_name, c.PrTitle, c.AuthorLogin) and the choice it makes
FindPr ==
  /\ pc = "findPr"
  /\ \/ /\ pr_num' = findPrNumber(prs[repo_name], c.PrTitle, c.AuthorLogin)
        /\ pc' = checkErr(FALSE, CreateOrUpdate(pr_num'))
        /\ log' = Append(log, EvFound(pr_num'))
        /\ UNCHANGED <<env, hosting, fs, i, j, files, files_diff, wt, outcome>>
     \/ /\ pc' = "fatal"
        /\ log' = Append(log, Ev("error", <<>>))
        /\ UNCHANGED <<env, hosting, fs, i, j, files, files_diff, pr_num, wt, outcome>>

\* createPr and updatePr: worktree.AddGlob(".") and worktree.Commit
Commit ==
  /\ pc \in {"createPr", "updatePr"}
  /\ \/ /\ wt' = [wt EXCEPT !.commit = CommitOf(fs, repo_name, c.PrTitle, c.AuthorLogin, run)]
        /\ pc' = checkErr(FALSE, IF pc = "createPr" THEN "createPush" ELSE "updatePush")
        /\ log' = Append(log, Ev("commit", <<>>))
        /\ UNCHANGED <<env, hosting, fs, i, j, files, files_diff, pr_num, outcome>>
     \/ Fail(IF pc = "createPr" THEN "createPush" ELSE "updatePush")

\* createPr: git push origin -u branch_name
CreatePush ==
  /\ pc = "createPush"
  /\ \/ /\ PushAccepted(remoteBranch[repo_name], FALSE)
        /\ remoteBranch' = [remoteBranch EXCEPT ![repo_name] = wt.commit]
        /\ pc' = checkErr(FALSE, "prCreate")
        /\ log' = Append(log, Ev("push", <<>>))
        /\ UNCHANGED <<env, defaultTree, prs, fs, i, j, files, files_diff, pr_num, wt, outcome>>
     \/ Fail("prCreate")

\* createPr: gh pr create -t prTitle -H branch_name
PrCreate ==
  /\ pc = "prCreate"
  /\ \/ /\ CreateAccepted(prs[repo_name], branch_name)
        /\ prs' = [prs EXCEPT ![repo_name] =
                     <<NewPr(@, c.PrTitle, ghUser, branch_name)>> \o @]
        /\ outcome' = [outcome EXCEPT ![repo_name] = "created"]
        /\ i' = i + 1
        /\ pc' = checkErr(FALSE, "loop")
        /\ log' = Append(log, Ev("prCreate", <<>>))
        /\ UNCHANGED <<env, defaultTree, remoteBranch, fs, j, files, files_diff, pr_num, wt>>
     \/ /\ pc' = checkErr(TRUE, "loop")
        /\ i' = IF pc' = "fatal" THEN i ELSE i + 1
        /\ log' = Append(log, Ev("error", <<>>))
        /\ UNCHANGED <<env, hosting, fs, j, files, files_diff, pr_num, wt, outcome>>

\* updatePr: git push origin -u branch_name --force
UpdatePush ==
  /\ pc = "updatePush"
  /\ \/ /\ PushAccepted(remoteBranch[repo_name], TRUE)
        /\ remoteBranch' = [remoteBranch EXCEPT ![repo_name] = wt.commit]
        /\ outcome' = [outcome EXCEPT ![repo_name] = "updated"]
        /\ i' = i + 1
        /\ pc' = checkErr(FALSE, "loop")
        /\ log' = Append(log, Ev("pushForce", <<>>))
        /\ UNCHANGED <<env, defaultTree, prs, fs, j, files, files_diff, pr_num, wt>>
     \/ /\ pc' = checkErr(TRUE, "loop")
        /\ i' = IF pc' = "fatal" THEN i ELSE i + 1
        /\ log' = Append(log, Ev("error", <<>>))
        /\ UNCHANGED <<env, hosting, fs, j, files, files_diff, pr_num, wt, outcome>>

\* The path mapping of getFilesDiff applied to one file path
MapPath ==
  /\ pc = "path"
  /\ outRel' = FileRel(inFile, inPrefix)
  /\ pc' = "pathDone"
  /\ UNCHANGED <<c, sep, ghUser, run, prevOutcome, prs0, inFile, inPrefix, hosting, fs,
                 i, j, files, files_diff, pr_num, wt, log, outcome>>

(***************************************************************************)
(* the environment: the template directory, the repositories, later runs   *)
(***************************************************************************)

MaxRuns == 2

RepoNames == {"r1", "r2"}

Config == [PrTitle |-> "sync", FilesDir |-> <<"templates">>,
           AuthorLogin |-> "bot", Repos |-> <<"r1", "r2">>]

Contents == {1, 2}

fA == <<"A">>

fB == <<"B">>

fD == <<"d">>

fDC == <<"d", "C">>

fX == <<"X">>

\* The trees over the paths P: "d" is a file or a directory, never both
Trees(P) ==
  UNION {[S -> Contents] : S \in {T \in SUBSET P : ~(fD \in T /\ fDC \in T)}}

Template == [p \in {fA, fB, fDC} |-> 1]

EmptyFs == [p \in {} |-> 0]

\* A fresh working directory: the template files and no clone
Workspace(filesDir, template) == WriteTree(EmptyFs, Components(filesDir), template)

StaleCommit(merged) ==
  [id |-> -1, tree |-> EmptyTree, title |-> "sync", author |-> "bot", merged |-> merged]

Pr(title, author, head, number) ==
  [title |-> title, number |-> number, author |-> author, head |-> head]

\* What the provider may hold of one repository before the first run: no
\* PR or one, and the sync branch absent or left by an earlier sync (an open
\* PR's head branch exists and is not merged)
HostStates ==
  {h \in [prs : {<<>>, <<Pr("sync", "bot", branch_name, 5)>>,
                 <<Pr("sync", "bot", "other", 5)>>,
                 <<Pr("sync", "human", "other", 5)>>},
          branch : {NoCommit, StaleCommit(TRUE), StaleCommit(FALSE)}] :
     /\ (Len(h.prs) > 0 /\ h.prs[1].head = branch_name) => h.branch = StaleCommit(FALSE)
     /\ (Len(h.prs) > 0 /\ h.prs[1].head /= branch_name) => h.branch = NoCommit}

TreesFirst == {t \in Trees({fA, fB, fDC, fX}) : fX \in DOMAIN t => t[fX] = 1}

TreesSecond == {EmptyTree, Template}

HostSecond == {h \in HostStates : (Len(h.prs) = 0) = (h.branch.id = 0)}

TreesRuns == {EmptyTree, Template, [Template EXCEPT ![fB] = 2]}

PerRepo(a, b) == [r \in RepoNames |-> IF r = "r1" THEN a ELSE b]

InitIdlePath ==
  /\ inFile = <<>>
  /\ inPrefix = <<>>
  /\ outRel = <<>>

InitProcess ==
  /\ run = 1
  /\ j = 1
  /\ files_diff = NoDiff
  /\ pr_num = 0
  /\ wt = NoWt
  /\ log = <<>>
  /\ outcome = [r \in RepoNames |-> "none"]
  /\ prevOutcome = [r \in RepoNames |-> "none"]

InitHosting(T1, H1, T2, H2) ==
  /\ \E t1 \in T1, t2 \in T2 : defaultTree = PerRepo(t1, t2)
  /\ \E h1 \in H1, h2 \in H2 :
       /\ prs = PerRepo(h1.prs, h2.prs)
       /\ prs0 = prs
       /\ remoteBranch = PerRepo(h1.branch, h2.branch)

\* One run over two repositories
Init ==
  /\ c = Config
  /\ sep \in Separators
  /\ ghUser \in {"bot", "human"}
  /\ fs = Workspace(c.FilesDir, Template)
  /\ InitHosting(TreesFirst, HostStates, TreesSecond, HostSecond)
  /\ pc = "readConfig"
  /\ i = 0
  /\ files = <<>>
  /\ InitProcess
  /\ InitIdlePath

\* Run after run, each in a fresh working directory
InitRuns ==
  /\ c = Config
  /\ sep = Slash
  /\ ghUser \in {"bot", "human"}
  /\ fs = Workspace(c.FilesDir, Template)
  /\ InitHosting(TreesRuns, HostStates, TreesSecond, HostSecond)
  /\ pc = "readConfig"
  /\ i = 0
  /\ files = <<>>
  /\ InitProcess
  /\ InitIdlePath

\* The next run starts, in a fresh checkout of the same template directory
Rerun ==
  /\ pc \in {"done", "fatal"}
  /\ run < MaxRuns
  /\ run' = run + 1
  /\ fs' = Workspace(c.FilesDir, FilesBelow(fs, Components(c.FilesDir)))
  /\ prevOutcome' = outcome
  /\ prs0' = prs
  /\ outcome' = [r \in RepoNames |-> "none"]
  /\ pc' = "readConfig"
  /\ i' = 0
  /\ j' = 1
  /\ files' = <<>>
  /\ files_diff' = NoDiff
  /\ pr_num' = 0
  /\ wt' = NoWt
  /\ log' = <<>>
  /\ UNCHANGED <<c, sep, ghUser, pathVars, hosting>>

NextRun ==
  \/ ReadConfig \/ GetAllFiles \/ LoopEnd \/ Clone \/ Diff \/ Skip \/ NoSkip
  \/ Checkout \/ CopyNew \/ CopyNewEnd \/ CopyChanged \/ CopyChangedEnd
  \/ FindPr \/ Commit \/ CreatePush \/ PrCreate \/ UpdatePush

Next == NextRun

Spec == Init /\ [][Next]_vars

NextRuns == NextRun \/ Rerun

SpecRuns == InitRuns /\ [][NextRuns]_vars

(***************************************************************************)
(* the Diff Engine alone: any template directory against any checkout      *)
(***************************************************************************)

MaxContent == 2

DiffTrees ==
  UNION {[S -> 1..MaxContent] :
           S \in {T \in SUBSET {fA, fB, fD, fDC} : ~(fD \in T /\ fDC \in T)}}

InitDiff ==
  /\ c = [Config EXCEPT !.Repos = <<"r1">>]
  /\ sep \in Separators
  /\ ghUser = "bot"
  /\ \E template \in DiffTrees, target \in DiffTrees :
       fs = WriteTree(Workspace(c.FilesDir, template),
                      Components(repo_clone_dir("r1")), target)
  /\ InitHosting({EmptyTree}, {[prs |-> <<>>, branch |-> NoCommit]},
                 {EmptyTree}, {[prs |-> <<>>, branch |-> NoCommit]})
  /\ files = getAllFiles(fs, c.FilesDir, sep)
  /\ InitProcess
  /\ InitIdlePath
  /\ i = 1
  /\ pc = "diff"

SpecDiff == InitDiff /\ [][Diff]_vars

(***************************************************************************)
(* the PR Locator alone: any response of the provider, any title and login *)
(***************************************************************************)

MaxPrs == 2

PrItems ==
  [title : {"sync", "other"}, number : {5, 6, 7}, author : {"bot", "human"},
   head : {branch_name}]

PrLists ==
  {l \in UNION {[1..n -> PrItems] : n \in 0..MaxPrs} :
     \A a, b \in 1..Len(l) : a /= b => l[a].number /= l[b].number}

InitFind ==
  /\ \E title \in {"sync", "other"}, login \in {"bot", "human"} :
       c = [Config EXCEPT !.Repos = <<"r1">>, !.PrTitle = title, !.AuthorLogin = login]
  /\ sep = Slash
  /\ ghUser = "bot"
  /\ fs = Workspace(c.FilesDir, Template)
  /\ defaultTree = PerRepo(EmptyTree, EmptyTree)
  /\ \E l \in PrLists : prs = PerRepo(l, <<>>)
  /\ prs0 = prs
  /\ remoteBranch = PerRepo(NoCommit, NoCommit)
  /\ files = <<>>
  /\ InitProcess
  /\ InitIdlePath
  /\ i = 1
  /\ pc = "findPr"

SpecFind == InitFind /\ [][FindPr]_vars

(***************************************************************************)
(* the path mapping alone: any path in any mix of separators               *)
(***************************************************************************)

MaxNames == 3

PathNames == {"templates", "a", "b.txt"}

\* The names joined by the separators seps[1], seps[2], ...
Joined(names, seps) ==
  [k \in 1..(2 * Len(names) - 1) |->
     IF k % 2 = 1 THEN names[(k + 1) \div 2] ELSE seps[k \div 2]]

InPaths ==
  UNION {{Joined(names, seps) : names \in [1..n -> PathNames],
                               seps \in [1..(n - 1) -> Separators]} : n \in 1..MaxNames}

InitPath ==
  /\ c = Config
  /\ sep = Slash
  /\ ghUser = "bot"
  /\ fs = EmptyFs
  /\ InitHosting({EmptyTree}, {[prs |-> <<>>, branch |-> NoCommit]},
                 {EmptyTree}, {[prs |-> <<>>, branch |-> NoCommit]})
  /\ files = <<>>
  /\ InitProcess
  /\ inFile \in InPaths
  /\ inPrefix \in {<<"templates", Slash>>, <<"a", Slash>>}
  /\ outRel = <<>>
  /\ i = 0
  /\ pc = "path"

SpecPath == InitPath /\ [][MapPath]_vars

(***************************************************************************)
(* what the claims speak of                                                *)
(***************************************************************************)

Repos == {c.Repos[k] : k \in 1..Len(c.Repos)}

IndexOf(r) == CHOOSE k \in 1..Len(c.Repos) : c.Repos[k] = r

\* The steps the current run has taken for repository r, in order
StepsOf(r) ==
  LET mine == SelectSeq(log, LAMBDA e : e.repo = r)
  IN  [k \in 1..Len(mine) |-> mine[k].step]

Count(r, step) ==
  Cardinality({k \in 1..Len(log) : log[k].repo = r /\ log[k].step = step})

\* What the PR Locator answered for r in this run (defined once it was asked)
Located(r) ==
  LET k == CHOOSE m \in 1..Len(log) : log[m].repo = r /\ log[m].step = "findPr"
  IN  log[k].num

Matching(items) ==
  Cardinality({k \in 1..Len(items) :
                 items[k].title = c.PrTitle /\ items[k].author = c.AuthorLogin})

Range(q) == {q[k] : k \in 1..Len(q)}

\* The template files and the checkout of r, by the names of their paths
TemplateFiles == FilesBelow(fs, Components(c.FilesDir))

Checkout_(r) == FilesBelow(fs, Components(repo_clone_dir(r)))

\* C1: at most one open PR of a repository carries the configured title
\* and author login, run after run, when at most one did at the start; a
\* run opens a PR only after the PR Locator found none, and where it found
\* one it force-pushes and opens none.
C1_AtMostOnePr ==
  \A r \in Repos :
    /\ Matching(prs[r]) <= 1
    /\ Count(r, "prCreate") > 0 =>
         /\ Located(r) = 0
         /\ Matching(prs0[r]) = 0
         /\ Count(r, "pushForce") = 0
    /\ Count(r, "pushForce") > 0 =>
         /\ Located(r) /= 0
         /\ prs[r] = prs0[r]

\* C1 witness: the PR the first run opened is found, not doubled, by the second
C1_Witness ==
  /\ run = 2
  /\ prevOutcome["r1"] = "created"
  /\ outcome["r1"] = "updated"
  /\ Matching(prs["r1"]) = 1

Terminal == {"skipped", "created", "updated"}

\* C2 as claimed: the second of two runs in succession ends in
\* SkippedNoChange for every repository the first run completed, with no
\* second commit and no second push.
C2_SecondRunSkips ==
  \A r \in Repos :
    (run = 2 /\ (\A q \in Repos : prevOutcome[q] \in Terminal)
       /\ outcome[r] \in Terminal) =>
      /\ outcome[r] = "skipped"
      /\ Count(r, "commit") = 0
      /\ Count(r, "push") + Count(r, "pushForce") = 0

InSync(r) ==
  \A p \in DOMAIN TemplateFiles :
    p \in DOMAIN defaultTree[r] /\ defaultTree[r][p] = TemplateFiles[p]

\* C2 amended: a run ends in SkippedNoChange for a repository exactly when
\* the default branch already holds every template file unchanged, so the
\* second of two runs in succession skips a repository exactly when the
\* first did; a skipping run neither commits nor pushes, and a run that
\* ends in Created or Updated makes one commit and one push, also when it
\* is the second.
C2_SkipsWhenInSync ==
  \A r \in Repos :
    /\ outcome[r] /= "none" => (outcome[r] = "skipped") = InSync(r)
    /\ (prevOutcome[r] /= "none" /\ outcome[r] /= "none") =>
         (outcome[r] = "skipped") = (prevOutcome[r] = "skipped")
    /\ outcome[r] = "skipped" =>
         Count(r, "commit") + Count(r, "push") + Count(r, "pushForce") = 0
    /\ outcome[r] \in {"created", "updated"} =>
         /\ Count(r, "commit") = 1
         /\ Count(r, "push") + Count(r, "pushForce") = 1

\* C2 witness: a second run that commits and pushes again, and one that skips
C2_Witness ==
  /\ run = 2
  /\ prevOutcome["r1"] = "created"
  /\ outcome["r1"] = "updated"
  /\ Count("r1", "commit") = 1
  /\ prevOutcome["r2"] = "skipped"
  /\ outcome["r2"] = "skipped"

BranchWork ==
  {"checkout", "copyNew", "copyChanged", "findPr", "createPr", "updatePr",
   "createPush", "prCreate", "updatePush"}

\* C3: a repository whose diff has no new and no changed file ends in
\* SkippedNoChange and takes no step but clone, diff and skip: no checkout
\* of a branch, no file written, no PR lookup, no commit, no push, no PR;
\* its checkout and the provider's view of it stay as they were, and the
\* run goes on to the next repository of the list.
C3_SkipIfUnchanged ==
  /\ pc \in BranchWork => ~(Len(files_diff.NewFiles) = 0 /\ Len(files_diff.ChangedFiles) = 0)
  /\ pc = "check" /\ Len(files_diff.NewFiles) = 0 /\ Len(files_diff.ChangedFiles) = 0
       => ENABLED Skip
  /\ \A r \in Repos :
       outcome[r] = "skipped" =>
         /\ StepsOf(r) = <<"clone", "diff", "skip">>
         /\ Checkout_(r) = defaultTree[r]
         /\ prs[r] = prs0[r]
         /\ i > IndexOf(r)
         /\ (i = IndexOf(r) + 1 /\ log[Len(log)].repo = r) =>
              pc \in {"loop", "done"} /\ (pc = "done" => i > Len(c.Repos))

\* C3 witness: the first repository was skipped and the second got its PR
C3_Witness ==
  /\ outcome["r1"] = "skipped"
  /\ outcome["r2"] = "created"

\* C4: with a non-empty diff, a PR Locator that found no PR leads to a push
\* without force and to exactly one new PR whose head is the pushed
\* branch; one that found a PR leads to a forced push and to no new PR.
\* No forced push follows "none found", no PR creation follows "found".
C4_CreateOrUpdate ==
  /\ pc \in {"createPr", "createPush", "prCreate"} => pr_num = 0
  /\ pc \in {"updatePr", "updatePush"} => pr_num /= 0
  /\ \A r \in Repos :
       /\ Count(r, "push") + Count(r, "prCreate") > 0 =>
            Located(r) = 0 /\ Count(r, "pushForce") = 0
       /\ Count(r, "pushForce") > 0 =>
            Located(r) /= 0 /\ Count(r, "prCreate") = 0 /\ prs[r] = prs0[r]
       /\ outcome[r] = "created" =>
            /\ Located(r) = 0
            /\ Count(r, "push") = 1
            /\ Count(r, "prCreate") = 1
            /\ Len(prs[r]) = Len(prs0[r]) + 1
            /\ Range(prs0[r]) \subseteq Range(prs[r])
            /\ \E k \in 1..Len(prs[r]) :
                 /\ prs[r][k] \notin Range(prs0[r])
                 /\ prs[r][k].head = branch_name
                 /\ prs[r][k].title = c.PrTitle
            /\ remoteBranch[r].id = run
       /\ outcome[r] = "updated" =>
            /\ Located(r) /= 0
            /\ Count(r, "pushForce") = 1
            /\ remoteBranch[r].id = run
       /\ outcome[r] \in {"created", "updated"} => Len(StepsOf(r)) > 3

\* C4 witness: one repository ended in Created and the other in Updated
C4_Witness ==
  /\ outcome["r1"] = "created"
  /\ outcome["r2"] = "updated"

\* C8: a failed step ends the run at once: the error is the last entry of
\* the log, the failing repository reaches no terminal state, no repository
\* after it in the list takes any step, and no step is taken twice.
C8_FatalOnError ==
  /\ \A k \in 1..Len(log) : log[k].step = "error" => k = Len(log) /\ pc = "fatal"
  /\ pc = "fatal" =>
       /\ Len(log) > 0 /\ log[Len(log)].step = "error"
       /\ ~ENABLED Next
       /\ \A k \in 1..Len(c.Repos) :
            /\ k >= i => outcome[c.Repos[k]] \notin Terminal
            /\ k > i => StepsOf(c.Repos[k]) = <<>> /\ outcome[c.Repos[k]] = "none"
  /\ \A a, b \in 1..Len(log) : a /= b => log[a] /= log[b]

\* C8 witness: the push of the first repository failed after its commit
C8_Witness ==
  /\ pc = "fatal"
  /\ StepsOf("r1") = <<"clone", "diff", "checkout", "copy", "findPr", "commit", "error">>
  /\ StepsOf("r2") = <<>>

Materialized == {"findPr", "createPr", "updatePr", "createPush", "prCreate", "updatePush"}

Committed == {"createPush", "prCreate", "updatePush"}

\* The paths of the diff of the repository being processed, by their names
DiffNew == {Components(p) : p \in Range(files_diff.NewFiles)}

DiffChanged == {Components(p) : p \in Range(files_diff.ChangedFiles)}

\* C9: once a repository with a non-empty diff is materialized, every new
\* and every changed path is in the checkout with the template's content,
\* every other template file has the content it was cloned with, and the
\* one commit the run then makes changes exactly the new and changed
\* paths: a target holding B (old) and C against a template of A, B and C
\* gives New [A], Changed [B] and a commit of exactly A and B.
C9_MaterializeAndCommit ==
  pc \in Materialized =>
    /\ DiffNew \cup DiffChanged /= {}
    /\ \A p \in DiffNew \cup DiffChanged :
         /\ p \in DOMAIN TemplateFiles
         /\ p \in DOMAIN Checkout_(repo_name)
         /\ Checkout_(repo_name)[p] = TemplateFiles[p]
    /\ \A p \in DOMAIN TemplateFiles \ (DiffNew \cup DiffChanged) :
         /\ p \in DOMAIN defaultTree[repo_name]
         /\ p \in DOMAIN Checkout_(repo_name)
         /\ Checkout_(repo_name)[p] = defaultTree[repo_name][p]
    /\ Count(repo_name, "commit") = (IF pc \in Committed THEN 1 ELSE 0)
    /\ pc \in Committed =>
         /\ wt.commit.id = run
         /\ wt.commit.title = c.PrTitle
         /\ wt.head = defaultTree[repo_name]
         /\ Changes(wt.head, wt.commit.tree) = DiffNew \cup DiffChanged
    /\ defaultTree[repo_name] = [p \in {fB, fDC} |-> IF p = fB THEN 2 ELSE 1] =>
         /\ files_diff.NewFiles = <<fA>>
         /\ files_diff.ChangedFiles = <<fB>>
         /\ pc \in Committed => Changes(wt.head, wt.commit.tree) = {fA, fB}

\* C9 witness: the scenario, committed; and a new file in a new directory
C9_Witness ==
  /\ pc = "prCreate"
  /\ repo_name = "r1"
  /\ defaultTree["r1"] = [p \in {fB, fDC} |-> IF p = fB THEN 2 ELSE 1]
  /\ Changes(wt.head, wt.commit.tree) = {fA, fB}
  /\ defaultTree["r2"] = EmptyTree

\* The three classes of a template file with the names q in the checkout
TargetOf(q) == Components(repo_clone_dir(repo_name)) \o q

InNew(q) == PathOf(q, Slash) \in Range(files_diff.NewFiles)

InChanged(q) == PathOf(q, Slash) \in Range(files_diff.ChangedFiles)

Identical(q) == IsFile(fs, TargetOf(q)) /\ fs[TargetOf(q)] = TemplateFiles[q]

\* C5: the diff partitions the template files: each one's relative path is
\* in exactly one of New, Changed and Unchanged (in the target with the
\* same content); NewFiles and ChangedFiles share no path, list no path
\* twice and list template files only.
C5_Partition ==
  pc = "check" =>
    /\ \A q \in DOMAIN TemplateFiles :
         \/ InNew(q) /\ ~InChanged(q) /\ ~Identical(q)
         \/ ~InNew(q) /\ InChanged(q) /\ ~Identical(q)
         \/ ~InNew(q) /\ ~InChanged(q) /\ Identical(q)
    /\ Range(files_diff.NewFiles) \cap Range(files_diff.ChangedFiles) = {}
    /\ Cardinality(Range(files_diff.NewFiles)) = Len(files_diff.NewFiles)
    /\ Cardinality(Range(files_diff.ChangedFiles)) = Len(files_diff.ChangedFiles)
    /\ Range(files_diff.NewFiles) \cup Range(files_diff.ChangedFiles)
         \subseteq {PathOf(q, Slash) : q \in DOMAIN TemplateFiles}

\* C5 witness: a diff with a new, a changed and an unchanged file
C5_Witness ==
  /\ pc = "check"
  /\ Len(files_diff.NewFiles) = 1
  /\ Len(files_diff.ChangedFiles) = 1
  /\ Cardinality(DOMAIN TemplateFiles) = 3

\* C6: a template file is New exactly when the target path does not exist,
\* Changed exactly when it exists and its content is not the template
\* file's, and left out exactly when it exists with the same content.
C6_Classification ==
  pc = "check" =>
    \A q \in DOMAIN TemplateFiles :
      /\ InNew(q) = ~Exists(fs, TargetOf(q))
      /\ InChanged(q) = (Exists(fs, TargetOf(q)) /\ ~Identical(q))
      /\ (~InNew(q) /\ ~InChanged(q)) = (Exists(fs, TargetOf(q)) /\ Identical(q))

\* C6 witness: a changed file beside a new one in a directory of its own
C6_Witness ==
  /\ pc = "check"
  /\ sep = Backslash
  /\ files_diff.NewFiles = <<<<"d", Slash, "C">>>>
  /\ files_diff.ChangedFiles = <<<<"A">>>>
  /\ fB \in DOMAIN TemplateFiles
  /\ Identical(fB)

FirstMatch(items, title, author) ==
  LET M == {k \in 1..Len(items) : items[k].author = author /\ items[k].title = title}
  IN  IF M = {} THEN 0 ELSE items[CHOOSE k \in M : \A m \in M : k <= m].number

ExampleList == <<Pr("sync", "bot", branch_name, 5), Pr("other", "bot", branch_name, 6)>>

\* C7: the PR Locator returns the number of the first item of the
\* provider's response whose author login and title both equal the ones
\* given, and none, without failing, when no item does: of [{sync,5,bot},
\* {other,6,bot}] it returns 5 for (sync, bot) and none for (sync, human).
C7_PrResolution ==
  LET items == prs[repo_name]
  IN  /\ pc \in {"createPr", "updatePr"} =>
           /\ pr_num = FirstMatch(items, c.PrTitle, c.AuthorLogin)
           /\ (pc = "createPr") = (pr_num = 0)
           /\ log[Len(log)] = EvFound(pr_num)
           /\ items = ExampleList /\ c.PrTitle = "sync" /\ c.AuthorLogin = "bot" => pr_num = 5
           /\ items = ExampleList /\ c.PrTitle = "sync" /\ c.AuthorLogin = "human" => pr_num = 0
      /\ pc = "fatal" => log[Len(log)].step = "error"

\* C7 witness: two items match and the first one's number is returned
C7_Witness ==
  /\ pc = "updatePr"
  /\ Len(prs["r1"]) = 2
  /\ Matching(prs["r1"]) = 2
  /\ pr_num = prs["r1"][1].number

\* C10: the relative path of a template file does not depend on which
\* separators its path is written with: it is what stripping the prefix
\* from the path written with forward slashes gives; templates/a/b.txt
\* with the prefix templates/ maps to a/b.txt in either style.
C10_PathNormalization ==
  pc = "pathDone" =>
    /\ outRel = TrimPrefix(PathOf(Components(inFile), Slash), inPrefix)
    /\ (Components(inFile) = <<"templates", "a", "b.txt">> /\ inPrefix = <<"templates", Slash>>)
         => outRel = <<"a", Slash, "b.txt">>

\* C10 witness: the path written with backslashes
C10_Witness ==
  /\ pc = "pathDone"
  /\ inFile = <<"templates", Backslash, "a", Backslash, "b.txt">>
  /\ inPrefix = <<"templates", Slash>>
  /\ outRel = <<"a", Slash, "b.txt">>

IsPrefix(a, b) == Len(a) <= Len(b) /\ SubSeq(b, 1, Len(a)) = a

\* The steps of r without the error that ended the run, if one did
Completed(r) ==
  LET st == StepsOf(r)
  IN  IF Len(st) > 0 /\ st[Len(st)] = "error" THEN SubSeq(st, 1, Len(st) - 1) ELSE st

\* The order of the states of one repository with n files to copy: Cloned,
\* Diffed, BranchPrepared, Materialized, the PR Locator, Committed, and
\* then Created (tail "create") or Updated
StateOrder(n, tail) ==
  <<"clone", "diff", "checkout">> \o [k \in 1..n |-> "copy"] \o <<"findPr", "commit">>
    \o (IF tail = "create" THEN <<"push", "prCreate">> ELSE <<"pushForce">>)

SkipOrder == <<"clone", "diff", "skip">>

\* C11: the steps of every repository are a prefix of Cloned, Diffed,
\* SkippedNoChange or of Cloned, Diffed, BranchPrepared, Materialized (one
\* copy per file of the diff, at least one), the PR Locator, Committed,
\* then Created or Updated as the Locator answered; a terminal outcome is
\* reached exactly at the end of its order, and nothing follows it.
C11_StateOrder ==
  \A r \in Repos :
    /\ \/ IsPrefix(Completed(r), SkipOrder)
       \/ \E n \in 1..Len(log), tail \in {"create", "update"} :
            /\ IsPrefix(Completed(r), StateOrder(n, tail))
            /\ Count(r, "findPr") > 0 =>
                 (tail = "create") = (Located(r) = 0)
            /\ (Count(r, "findPr") > 0 /\ r = repo_name) =>
                 n = Len(files_diff.NewFiles) + Len(files_diff.ChangedFiles)
    /\ (outcome[r] = "skipped") = (StepsOf(r) = SkipOrder)
    /\ (outcome[r] = "created") =
         (\E n \in 1..Len(log) : StepsOf(r) = StateOrder(n, "create"))
    /\ (outcome[r] = "updated") =
         (\E n \in 1..Len(log) : StepsOf(r) = StateOrder(n, "update"))

\* C11 witness: two files copied, then the Locator, the commit, the push
\* and the PR; the second repository skipped
C11_Witness ==
  /\ StepsOf("r1") = <<"clone", "diff", "checkout", "copy", "copy", "findPr",
                       "commit", "push", "prCreate">>
  /\ StepsOf("r2") = SkipOrder

(***************************************************************************)
(* files_dir as a configuration may write it                               *)
(***************************************************************************)

\* The same directory written plainly, with a leading "./", with a
\* trailing "/"
FilesDirs == {<<"templates">>, <<".", Slash, "templates">>, <<"templates", Slash>>}

InitDirs ==
  /\ \E d \in FilesDirs : c = [Config EXCEPT !.FilesDir = d]
  /\ sep \in Separators
  /\ ghUser = "bot"
  /\ fs = Workspace(c.FilesDir, Template)
  /\ InitHosting(TreesRuns, HostStates, TreesSecond, HostSecond)
  /\ pc = "readConfig"
  /\ i = 0
  /\ files = <<>>
  /\ InitProcess
  /\ InitIdlePath

SpecDirs == InitDirs /\ [][NextRun]_vars

\* The paths of the template files relative to the template root
RelPaths == {PathOf(q, Slash) : q \in DOMAIN TemplateFiles}

\* C12 as claimed: however files_dir is written, every path the diff lists
\* is the path of a template file relative to the template root, none
\* starts with the name of the template directory, and each template file
\* is classified by what the checkout holds at that relative path.
C12_RelativeToTemplateRoot ==
  pc = "check" =>
    /\ Range(files_diff.NewFiles) \cup Range(files_diff.ChangedFiles) \subseteq RelPaths
    /\ \A p \in Range(files_diff.NewFiles) \cup Range(files_diff.ChangedFiles) :
         p[1] /= "templates"
    /\ \A q \in DOMAIN TemplateFiles :
         InNew(q) = ~Exists(fs, TargetOf(q))

\* A copy of the materialization of r failed (only these errors name a file)
CopyFailed(r) ==
  \E k \in 1..Len(log) :
    log[k].repo = r /\ log[k].step = "error" /\ log[k].path /= <<>>

\* The tree holds every template file with the template's content
HoldsTemplate(tree) ==
  \A p \in DOMAIN TemplateFiles : p \in DOMAIN tree /\ tree[p] = TemplateFiles[p]

\* C13: after a failed copy the run is over with no commit, no push and no
\* PR creation for that repository, and the provider holds what it held;
\* what a run commits and pushes holds every template file in full.
C13_DirtyNeverPushed ==
  \A r \in Repos :
    /\ CopyFailed(r) =>
         /\ pc = "fatal"
         /\ Count(r, "commit") + Count(r, "push") + Count(r, "pushForce")
              + Count(r, "prCreate") = 0
         /\ remoteBranch[r].id /= run
         /\ prs[r] = prs0[r]
         /\ outcome[r] \notin Terminal
    /\ (Count(r, "commit") > 0 /\ r = repo_name) => HoldsTemplate(wt.commit.tree)
    /\ remoteBranch[r].id = run => HoldsTemplate(remoteBranch[r].tree)

\* C13 witness: the copy of B broke off after A was written and B truncated
C13_Witness ==
  /\ pc = "fatal"
  /\ CopyFailed("r1")
  /\ defaultTree["r1"] = [p \in {fB, fDC} |-> IF p = fB THEN 2 ELSE 1]
  /\ Checkout_("r1") = [p \in {fA, fB, fDC} |-> IF p = fB THEN 0 ELSE 1]

\* The open PR of r with the number n
PrOf(r, n) ==
  LET k == CHOOSE m \in 1..Len(prs[r]) : prs[r][m].number = n
  IN  prs[r][k]

\* C14 as claimed: when a repository ends in Updated, the PR the PR Locator
\* returned is open with the sync branch as its head, and that branch
\* points at the commit of this run.
C14_UpdatedPrCarriesCommit ==
  \A r \in Repos :
    outcome[r] = "updated" =>
      /\ \E m \in 1..Len(prs[r]) : prs[r][m].number = Located(r)
      /\ PrOf(r, Located(r)).head = branch_name
      /\ remoteBranch[r].id = run

(***************************************************************************)
(* a later run in the working directory the earlier run left               *)
(***************************************************************************)

\* The program is started again where it ran before: ./clones/<repo_name>
\* and the branches made in it are still there
RerunInPlace ==
  /\ pc \in {"done", "fatal"}
  /\ run < MaxRuns
  /\ run' = run + 1
  /\ prevOutcome' = outcome
  /\ prs0' = prs
  /\ outcome' = [r \in RepoNames |-> "none"]
  /\ pc' = "readConfig"
  /\ i' = 0
  /\ j' = 1
  /\ files' = <<>>
  /\ files_diff' = NoDiff
  /\ pr_num' = 0
  /\ wt' = NoWt
  /\ log' = <<>>
  /\ UNCHANGED <<c, sep, ghUser, pathVars, hosting, fs>>

NextInPlace == NextRun \/ RerunInPlace

SpecInPlace == InitRuns /\ [][NextInPlace]_vars

\* The earlier run made the sync branch in the clone of r, which is still there
LocalBranchLeft(r) ==
  /\ run > 1
  /\ prevOutcome[r] \in {"created", "updated"}
  /\ Exists(fs, Components(repo_clone_dir(r)))

\* C15 as claimed: branch preparation can always succeed: a run that comes
\* to a repository whose clone already holds the sync branch can go on to
\* prepare the branch, and the checkout of the branch can succeed and
\* leaves the branch at the head of the default branch.
C15_BranchPreparationSucceeds ==
  /\ (pc = "loop" /\ i <= Len(c.Repos) /\ LocalBranchLeft(repo_name)) =>
       ENABLED (Clone /\ pc' = "diff")
  /\ pc = "checkout" => ENABLED (Checkout /\ pc' = "copyNew")
  /\ pc \in {"copyNew", "copyChanged"} =>
       wt.branch = branch_name /\ wt.head = defaultTree[repo_name]

\* The place in the configured list of the repository an entry of the log
\* is about (0: before the loop)
PlaceOf(e) == IF e.repo = "" THEN 0 ELSE IndexOf(e.repo)

\* C16: the entries of the log follow the configured list front to back,
\* each repository's steps begin with its clone, and a repository has a
\* step only when every repository before it in the list has reached
\* SkippedNoChange, Created or Updated; the one being processed is the
\* i-th of the list.
C16_FrontToBack ==
  /\ \A a, b \in 1..Len(log) : a < b => PlaceOf(log[a]) <= PlaceOf(log[b])
  /\ \A k \in 1..Len(c.Repos) :
       StepsOf(c.Repos[k]) /= <<>> =>
         /\ StepsOf(c.Repos[k])[1] \in {"clone", "error"}
         /\ k <= i
         /\ \A m \in 1..(k - 1) : outcome[c.Repos[m]] \in Terminal
  /\ \A k \in 1..Len(c.Repos) :
       (k < i /\ pc /= "fatal") => outcome[c.Repos[k]] \in Terminal

\* C16 witness: the second repository is being diffed after the first was updated
C16_Witness ==
  /\ outcome["r1"] = "updated"
  /\ StepsOf("r2") = <<"clone", "diff">>
  /\ pc = "check"

\* C17: computing the diff changes nothing on disk: the template
\* directory and the checkout hold the same paths with the same content
\* after the diff as before it, whether it returns a result or fails.
C17_DiffReadOnly ==
  [][pc = "diff" => fs' = fs]_vars

\* C17 witness: a diff that found a new and a changed file among two
C17_Witness ==
  /\ pc = "check"
  /\ Len(files_diff.NewFiles) = 1
  /\ Len(files_diff.ChangedFiles) = 1
  /\ DOMAIN TemplateFiles = {fA, fB}
  /\ Checkout_("r1") = [p \in {fA} |-> 2]

(***************************************************************************)
(* one run that keeps going: main is one sequential thread, and every      *)
(* call it makes returns, with a result or with an error                   *)
(***************************************************************************)

SpecLive == InitRuns /\ [][NextRun]_vars /\ WF_vars(NextRun)

\* The run is over after the last repository, each with one terminal outcome
Completes ==
  /\ pc = "done"
  /\ i = Len(c.Repos) + 1
  /\ \A r \in Repos : outcome[r] \in Terminal

\* C18: every run ends: it aborts on a failed step, or it completes after
\* the last repository of the list with every repository in one terminal
\* state (SkippedNoChange, Created or Updated); without a failed step it
\* completes.
C18_Termination ==
  <>(pc = "fatal" \/ Completes)

\* C18 witness: a run that completed, one repository updated, one created
C18_Witness ==
  /\ Completes
  /\ outcome["r1"] = "updated"
  /\ outcome["r2"] = "created"
  /\ \A k \in 1..Len(log) : log[k].step /= "error"

\* Where in the log the step of r is (defined when it is there)
At(r, step) == CHOOSE k \in 1..Len(log) : log[k].repo = r /\ log[k].step = step

\* C19: a push, forced or not, comes after the one commit of this run, and
\* what it leaves at the provider is that commit; a PR is created only
\* after the push without force succeeded; when the push failed or was
\* rejected, no PR was created and the provider holds what it held.
C19_CommitPushPr ==
  \A r \in Repos :
    /\ Count(r, "push") + Count(r, "pushForce") > 0 =>
         /\ Count(r, "commit") = 1
         /\ Count(r, "push") + Count(r, "pushForce") = 1
         /\ \A st \in {"push", "pushForce"} :
              Count(r, st) > 0 => At(r, "commit") < At(r, st)
         /\ r = repo_name => remoteBranch[r] = wt.commit
    /\ remoteBranch[r].id = run => Count(r, "push") + Count(r, "pushForce") = 1
    /\ Count(r, "prCreate") > 0 =>
         /\ Count(r, "push") = 1
         /\ At(r, "push") < At(r, "prCreate")
         /\ remoteBranch[r].id = run
    /\ prs[r] /= prs0[r] => Count(r, "prCreate") = 1
    /\ (Len(StepsOf(r)) > 1 /\ StepsOf(r)[Len(StepsOf(r))] = "error"
          /\ StepsOf(r)[Len(StepsOf(r)) - 1] = "commit") =>
         /\ prs[r] = prs0[r]
         /\ remoteBranch[r].id /= run

\* C19 witness: the push went through and the PR creation after it failed
C19_Witness ==
  /\ pc = "fatal"
  /\ StepsOf("r1") = <<"clone", "diff", "checkout", "copy", "findPr", "commit",
                       "push", "error">>
  /\ remoteBranch["r1"].id = run
  /\ prs["r1"] = prs0["r1"]

\* C20: from the checkout of the branch on, whatever the copies do and
\* wherever they fail, every file the repository was cloned with is still
\* in the checkout, and every one whose path is in neither NewFiles nor
\* ChangedFiles, a template file or not, has the content it was cloned
\* with; the checkout has no file beyond the cloned ones and those of the
\* diff, and the template directory is as it was.
C20_NothingElseTouched ==
  (repo_name /= "" /\ Count(repo_name, "checkout") > 0) =>
    /\ \A p \in DOMAIN defaultTree[repo_name] :
         /\ p \in DOMAIN Checkout_(repo_name)
         /\ p \notin DiffNew \cup DiffChanged =>
              Checkout_(repo_name)[p] = defaultTree[repo_name][p]
    /\ DOMAIN Checkout_(repo_name) \subseteq
         DOMAIN defaultTree[repo_name] \cup DiffNew \cup DiffChanged
    /\ TemplateFiles = Template

\* C20 witness: A and d/C were added and B replaced beside X, which only
\* the repository has
C20_Witness ==
  /\ pc = "findPr"
  /\ repo_name = "r1"
  /\ defaultTree["r1"] = [p \in {fB, fX} |-> IF p = fB THEN 2 ELSE 1]
  /\ Checkout_("r1") = [p \in {fA, fB, fDC, fX} |-> 1]

====
